---- MODULE Spec2Model ----
(***************************************************************************)
(* A model of scrape_market_images.py: load_cache, save_cache,             *)
(* scrape_image and the loop of main(), run as successive processes over   *)
(* one cache file (market_images.json) and one remote site.                *)
(***************************************************************************)
EXTENDS Naturals, Sequences, FiniteSets, TLC

(* ------------------------------ bounds -------------------------------- *)

\* How many of the configured identifiers a run iterates over.
NumTopics == 2

\* How many processes are started one after the other.
MaxRuns == 2

\* The longest page (number of elements) scrape_image is handed in
\* SpecExtract.
MaxElems == 3

(* ------------------------------ config -------------------------------- *)

ConfiguredIds ==
    << 3365, 3359, 1721, 3132, 2368, 2178, 1546, 3257, 3975, 3256,
       111, 2668, 2670, 3360, 1856, 3367, 279, 3369, 3861, 3361 >>

TOPIC_IDS == SubSeq(ConfiguredIds, 1, NumTopics)

Ids == {TOPIC_IDS[j] : j \in 1..Len(TOPIC_IDS)}

OUTPUT_FILE == "market_images.json"

(* ------------------------------ values -------------------------------- *)

\* Python's None (and JSON's null), kept apart from every string a page or a
\* cache file can hold.
None == "<None>"

\* A test for None alone, as "is not None": "" passes it.
Truthy_not_none(v) == v # None

\* bool(v) for the values the program tests: None and "" are false.
Truthy(v) == v # None /\ v # ""

DigitChars == << "0", "1", "2", "3", "4", "5", "6", "7", "8", "9" >>

\* A key formatted to a fixed width of five digits, as f"{topic_id:05d}".
RECURSIVE pad_digits(_, _)
pad_digits(n, width) ==
    IF width = 0 THEN ""
    ELSE pad_digits(n \div 10, width - 1) \o DigitChars[(n % 10) + 1]

str_padded(n) == pad_digits(n, 5)

\* str(topic_id): the decimal digits of a non-negative integer.
RECURSIVE str(_)
str(n) == IF n < 10 THEN DigitChars[n + 1]
          ELSE str(n \div 10) \o DigitChars[(n % 10) + 1]

\* dict: a function from string keys to values.
EmptyDict == [k \in {} |-> None]

\* cache[key] = value
SetItem(d, k, v) == [x \in (DOMAIN d) \cup {k} |-> IF x = k THEN v ELSE d[x]]

(* ------------------------------- pages -------------------------------- *)

\* An element of a parsed page, in document order: its tag name and the four
\* attributes the program looks at (None when the attribute is missing).
Img(alt, src) ==
    [name |-> "img", alt |-> alt, property |-> None, src |-> src, content |-> None]

Meta(property, content) ==
    [name |-> "meta", alt |-> None, property |-> property, src |-> None,
     content |-> content]

Elements ==
    {Img(a, s) : a \in {"thumbnail", "logo"}, s \in {None, "", "A", "C"}}
    \cup {Meta(p, c) : p \in {"og:image", "og:title"}, c \in {None, "", "B"}}
    \cup {[name |-> "meta", alt |-> "thumbnail", property |-> None,
           src |-> "X", content |-> None],
          [name |-> "img", alt |-> None, property |-> "og:image",
           src |-> None, content |-> "Y"]}

RECURSIVE SeqsUpTo(_, _)
SeqsUpTo(S, n) ==
    IF n = 0 THEN {<< >>}
    ELSE LET shorter == SeqsUpTo(S, n - 1)
         IN  shorter \cup {Append(p, e) : p \in {q \in shorter : Len(q) = n - 1}, e \in S}

Pages == SeqsUpTo(Elements, MaxElems)

\* What requests.get gives: a response with a status code and a body, or an
\* exception (timeout, connection error).
Response(status, page) == [kind |-> "response", status |-> status, text |-> page]

RequestException == [kind |-> "exception", status |-> 0, text |-> << >>]

\* The pages the site serves in the runs of main().
PageBoth == << Img("logo", "C"), Img("thumbnail", "A"), Meta("og:image", "B") >>

PageOgOnly == << Img("thumbnail", ""), Meta("og:image", "B") >>

PageNeither == << Img("logo", "C"), Meta("og:title", "B") >>

SiteResponses ==
    {Response(200, PageBoth), Response(200, PageOgOnly), Response(200, PageNeither),
     Response(404, << >>), RequestException}

AllResponses ==
    {Response(200, p) : p \in Pages} \cup {Response(404, p) : p \in {<< >>, PageBoth}}

(* ------------------------------- state -------------------------------- *)

VARIABLES
    file,         \* the cache file on disk: [kind, data]
    net,          \* what the site answers for each identifier, Unknown until asked
    run,          \* how many processes have been started
    status,       \* "idle", "running", "done", "aborted", "killed"
    pc,           \* where the process is in main()
    i,            \* index into TOPIC_IDS of the identifier being visited
    cache,        \* main()'s local dict
    r,            \* scrape_image's response object
    image_url,    \* what scrape_image returned
    notice,       \* the file named by the completion notice, "" before it
    abortedBy,    \* the function whose exception ended the run
    fileAtStart,  \* history: the file when the process started
    visited,      \* history: identifiers examined by this run, in order
    fetched,      \* history: identifiers scrape_image was called for in this run
    requests,     \* history: the identifiers of the requests of this run, in order
    failed,       \* history: identifiers whose visit ended unresolved in this run
    prevFailed,   \* history: the same, for the previous run
    delays,       \* history: pacing delays taken by this run
    saves,        \* history: completed save_cache calls of this run
    snap,         \* history: cache and file when the current visit started
    cutShort,     \* history: this run was killed, or an open() of the file was refused
    prevWhole,    \* history: the previous run was not
    sameNet       \* history: the site is as it was during the previous run

vars == << file, net, run, status, pc, i, cache, r, image_url, notice, abortedBy,
           fileAtStart, requests, visited, fetched, failed, prevFailed, delays, saves, snap,
           cutShort, prevWhole, sameNet >>

hist == << fileAtStart, requests, visited, fetched, failed, prevFailed, delays, saves, snap,
           cutShort, prevWhole, sameNet >>

(* ------------------------------- files -------------------------------- *)

Absent == [kind |-> "absent", data |-> EmptyDict]

\* A file that json.load rejects: empty, or a proper prefix of a JSON object.
Corrupt == [kind |-> "corrupt", data |-> EmptyDict]

Json(d) == [kind |-> "json", data |-> d]

\* The keys and values a cache file left by earlier use may hold.
StartKeys == {str(id) : id \in Ids} \cup {"999"}

StartValues == {"Z", "", None}

StartFiles ==
    {Absent, Corrupt, Json(EmptyDict)}
    \cup {Json(SetItem(EmptyDict, k, v)) : k \in StartKeys, v \in StartValues}
    \cup {Json(SetItem(SetItem(EmptyDict, str(TOPIC_IDS[1]), "Z"), "999", v)) :
            v \in {"Z", None}}

\* The site has not been asked about an identifier yet (or has changed since).
Unknown == [kind |-> "unknown", status |-> 0, text |-> << >>]

NoResponse == [kind |-> "none", status |-> 0, text |-> << >>]

NoSnap == [cache |-> EmptyDict, file |-> Absent]

Running(p) == status = "running" /\ pc = p

key == str(TOPIC_IDS[i])

(* ----------------------------- functions ------------------------------ *)

\* load_cache(): the parsed file, or an empty dict when the file is missing.
\* (A file json.load rejects makes it raise: see LoadCacheRaises.)
load_cache(f) == IF f.kind = "absent" THEN EmptyDict ELSE f.data

\* A save that writes only the entries of the configured identifiers.
save_cache_configured_only(data) ==
    Json([k \in (DOMAIN data) \cap {str(id) : id \in Ids} |-> data[k]])

\* save_cache(data), once json.dump has written everything and the file is closed.
save_cache(data) == Json(data)

\* open(OUTPUT_FILE, "w"): the file exists and is empty.
open_w(f) == Corrupt

\* A membership test that never finds the key.
InCache_never(k, d) == FALSE

\* A test that takes an entry with an empty or null value for a miss.
InCache_truthy(k, d) == k \in DOMAIN d /\ Truthy(d[k])

\* key in cache
InCache(k, d) == k \in DOMAIN d

\* soup.find(name, attr=value): the index of the first element, in document
\* order, with that tag name and that attribute value; 0 when there is none.
RECURSIVE find_from(_, _, _, _, _)
find_from(soup, j, name, attr, value) ==
    IF j > Len(soup) THEN 0
    ELSE IF soup[j].name = name /\ soup[j][attr] = value THEN j
    ELSE find_from(soup, j + 1, name, attr, value)

\* A search that keeps the first matching element that has a non-empty
\* src or content, as a loop over find_all would.
find_usable(soup, name, attr, value) ==
    LET usable == {j \in 1..Len(soup) :
                     /\ soup[j].name = name /\ soup[j][attr] = value
                     /\ Truthy(soup[j].src) \/ Truthy(soup[j].content)}
    IN  IF usable = {} THEN find_from(soup, 1, name, attr, value)
        ELSE CHOOSE j \in usable : \A k \in usable : j <= k

find(soup, name, attr, value) == find_from(soup, 1, name, attr, value)

\* tag.get(attr)
Get(tag, attr) == tag[attr]

\* scrape_image with the two rules in the other order.
scrape_image_og_first(resp) ==
    IF resp.status # 200 THEN None
    ELSE LET soup == resp.text
             img == find(soup, "img", "alt", "thumbnail")
             og == find(soup, "meta", "property", "og:image")
         IN  IF og # 0 /\ Truthy(Get(soup[og], "content")) THEN soup[og]["content"]
             ELSE IF img # 0 /\ Truthy(Get(soup[img], "src")) THEN soup[img]["src"]
             ELSE None

\* scrape_image from the response on: None for a status other than 200, else
\* the thumbnail's src, else the og:image's content, else None.
scrape_image(resp) ==
    IF resp.status # 200 THEN None
    ELSE LET soup == resp.text
             img == find(soup, "img", "alt", "thumbnail")
             og == find(soup, "meta", "property", "og:image")
         IN  IF img # 0 /\ Truthy(Get(soup[img], "src")) THEN soup[img]["src"]
             ELSE IF og # 0 /\ Truthy(Get(soup[og], "content")) THEN soup[og]["content"]
             ELSE None

\* A test that lets every result through, None included.
Resolves_always(url) == TRUE

\* if image_url:
Resolves(url) == Truthy(url)

(* ------------------------------- actions ------------------------------ *)

Init ==
    /\ file \in StartFiles
    /\ net = [id \in Ids |-> Unknown]
    /\ run = 0
    /\ status = "idle"
    /\ pc = "load"
    /\ i = 1
    /\ cache = EmptyDict
    /\ r = NoResponse
    /\ image_url = None
    /\ notice = ""
    /\ abortedBy = ""
    /\ fileAtStart = file
    /\ visited = << >>
    /\ fetched = {}
    /\ requests = << >>
    /\ failed = {}
    /\ prevFailed = {}
    /\ delays = 0
    /\ saves = 0
    /\ snap = NoSnap
    /\ cutShort = FALSE
    /\ prevWhole = FALSE
    /\ sameNet = FALSE

\* python scrape_market_images.py: a new process enters main().
StartRun ==
    /\ status # "running"
    /\ run < MaxRuns
    /\ run' = run + 1
    /\ status' = "running"
    /\ pc' = "load"
    /\ i' = 1
    /\ cache' = EmptyDict
    /\ r' = NoResponse
    /\ image_url' = None
    /\ notice' = ""
    /\ abortedBy' = ""
    /\ fileAtStart' = file
    /\ visited' = << >>
    /\ fetched' = {}
    /\ requests' = << >>
    /\ failed' = {}
    /\ prevFailed' = failed
    /\ delays' = 0
    /\ saves' = 0
    /\ snap' = NoSnap
    /\ cutShort' = FALSE
    /\ prevWhole' = (run >= 1 /\ ~cutShort)
    /\ sameNet' = (run >= 1)
    /\ UNCHANGED << file, net >>

\* The site changes what it serves for some identifiers. A run fetches an
\* identifier at most once, so a change at any time between two fetches of it
\* is a change as the later run starts.
NetChange ==
    /\ Running("load")
    /\ sameNet
    /\ \E changed \in (SUBSET {id \in Ids : net[id] # Unknown}) \ {{}} :
          net' = [id \in Ids |-> IF id \in changed THEN Unknown ELSE net[id]]
    /\ sameNet' = FALSE
    /\ UNCHANGED << file, run, status, pc, i, cache, r, image_url, notice, abortedBy,
                    fileAtStart, requests, visited, fetched, failed, prevFailed, delays, saves,
                    snap, cutShort, prevWhole >>

\* The process ends with an exception raised in function f.
Abort(f) ==
    /\ status' = "aborted"
    /\ abortedBy' = f

\* cache = load_cache()
LoadCache ==
    /\ Running("load")
    /\ file.kind # "corrupt"
    /\ cache' = load_cache(file)
    /\ pc' = "loop"
    /\ UNCHANGED << file, net, run, status, i, r, image_url, notice, abortedBy, hist >>

\* A load_cache that catches every exception and returns an empty dict.
LoadCacheRaises_caught ==
    /\ Running("load")
    /\ file.kind = "corrupt"
    /\ cache' = EmptyDict
    /\ pc' = "loop"
    /\ UNCHANGED << file, net, run, status, i, r, image_url, notice, abortedBy, hist >>

\* json.load raises on a file that is not JSON; only FileNotFoundError is caught.
LoadCacheRaises ==
    /\ Running("load")
    /\ file.kind = "corrupt"
    /\ Abort("load_cache")
    /\ UNCHANGED << file, net, run, pc, i, cache, r, image_url, notice, hist >>

\* open(OUTPUT_FILE, "r") raises on a file that exists and cannot be read.
LoadCacheDenied ==
    /\ Running("load")
    /\ file.kind # "absent"
    /\ Abort("load_cache")
    /\ cutShort' = TRUE
    /\ UNCHANGED << file, net, run, pc, i, cache, r, image_url, notice,
                    fileAtStart, requests, visited, fetched, failed, prevFailed, delays, saves,
                    snap, prevWhole, sameNet >>

\* A skip that goes through the sleep at the end of the loop body.
VisitCached_sleeps ==
    /\ Running("loop")
    /\ i <= Len(TOPIC_IDS)
    /\ InCache(key, cache)
    /\ visited' = Append(visited, TOPIC_IDS[i])
    /\ delays' = delays + 1
    /\ i' = i + 1
    /\ UNCHANGED << file, net, run, status, pc, cache, r, image_url, notice, abortedBy,
                    fileAtStart, requests, fetched, failed, prevFailed, saves, snap,
                    cutShort, prevWhole, sameNet >>

\* for topic_id in TOPIC_IDS: ... if key in cache: print; continue
VisitCached ==
    /\ Running("loop")
    /\ i <= Len(TOPIC_IDS)
    /\ InCache(key, cache)
    /\ visited' = Append(visited, TOPIC_IDS[i])
    /\ i' = i + 1
    /\ UNCHANGED << file, net, run, status, pc, cache, r, image_url, notice, abortedBy,
                    fileAtStart, requests, fetched, failed, prevFailed, delays, saves, snap,
                    cutShort, prevWhole, sameNet >>

\* ... else scrape_image(topic_id) is called and issues requests.get.
VisitScrape ==
    /\ Running("loop")
    /\ i <= Len(TOPIC_IDS)
    /\ ~InCache(key, cache)
    /\ visited' = Append(visited, TOPIC_IDS[i])
    /\ fetched' = fetched \cup {TOPIC_IDS[i]}
    /\ requests' = Append(requests, TOPIC_IDS[i])
    /\ snap' = [cache |-> cache, file |-> file]
    /\ pc' = "get"
    /\ UNCHANGED << file, net, run, status, i, cache, r, image_url, notice, abortedBy,
                    fileAtStart, failed, prevFailed, delays, saves,
                    cutShort, prevWhole, sameNet >>

\* What the site answers for an identifier: what it answered before, or
\* anything when it has not been asked since it last changed.
Answers(id) == IF net[id] = Unknown THEN SiteResponses ELSE {net[id]}

\* r = requests.get(url, headers=HEADERS, timeout=15) returns a response.
GetReturns ==
    /\ Running("get")
    /\ \E resp \in Answers(TOPIC_IDS[i]) :
          /\ resp.kind = "response"
          /\ net' = [net EXCEPT ![TOPIC_IDS[i]] = resp]
          /\ r' = resp
    /\ pc' = "scrape"
    /\ UNCHANGED << file, run, status, i, cache, image_url, notice, abortedBy, hist >>

\* requests.get raises (timeout, connection error); nothing catches it.
GetRaises ==
    /\ Running("get")
    /\ \E resp \in Answers(TOPIC_IDS[i]) :
          /\ resp.kind = "exception"
          /\ net' = [net EXCEPT ![TOPIC_IDS[i]] = resp]
    /\ Abort("scrape_image")
    /\ UNCHANGED << file, run, pc, i, cache, r, image_url, notice, hist >>

\* The rest of scrape_image: image_url = scrape_image(topic_id)
ScrapeReturns ==
    /\ Running("scrape")
    /\ image_url' = scrape_image(r)
    /\ pc' = "got"
    /\ UNCHANGED << file, net, run, status, i, cache, r, notice, abortedBy, hist >>

\* if image_url: cache[key] = image_url, and save_cache(cache) is entered.
Resolved ==
    /\ Running("got")
    /\ Resolves(image_url)
    /\ cache' = SetItem(cache, key, image_url)
    /\ pc' = "save_open"
    /\ UNCHANGED << file, net, run, status, i, r, image_url, notice, abortedBy, hist >>

Unresolved_retries ==
    /\ Running("got")
    /\ ~Resolves(image_url)
    /\ failed' = failed \cup {TOPIC_IDS[i]}
    /\ requests' = Append(requests, TOPIC_IDS[i])
    /\ pc' = IF TOPIC_IDS[i] \in failed THEN "sleep" ELSE "get"
    /\ UNCHANGED << file, net, run, status, i, cache, r, image_url, notice, abortedBy,
                    fileAtStart, visited, fetched, prevFailed, delays, saves, snap,
                    cutShort, prevWhole, sameNet >>

\* if image_url: is false; the visit goes on to the sleep.
Unresolved ==
    /\ Running("got")
    /\ ~Resolves(image_url)
    /\ failed' = failed \cup {TOPIC_IDS[i]}
    /\ pc' = "sleep"
    /\ UNCHANGED << file, net, run, status, i, cache, r, image_url, notice, abortedBy,
                    fileAtStart, requests, visited, fetched, prevFailed, delays, saves, snap,
                    cutShort, prevWhole, sameNet >>

\* with open(OUTPUT_FILE, "w") as f: the file is truncated.
SaveOpen ==
    /\ Running("save_open")
    /\ file' = open_w(file)
    /\ pc' = "save_write"
    /\ UNCHANGED << net, run, status, i, cache, r, image_url, notice, abortedBy, hist >>

\* open raises (permissions): the file is as it was.
SaveOpenRaises ==
    /\ Running("save_open")
    /\ Abort("save_cache")
    /\ cutShort' = TRUE
    /\ UNCHANGED << file, net, run, pc, i, cache, r, image_url, notice,
                    fileAtStart, requests, visited, fetched, failed, prevFailed, delays, saves,
                    snap, prevWhole, sameNet >>

\* json.dump(data, f, indent=2) and the close of the file; print "Saved".
SaveWrite ==
    /\ Running("save_write")
    /\ file' = save_cache(cache)
    /\ saves' = saves + 1
    /\ pc' = "sleep"
    /\ UNCHANGED << net, run, status, i, cache, r, image_url, notice, abortedBy,
                    fileAtStart, requests, visited, fetched, failed, prevFailed, delays, snap,
                    cutShort, prevWhole, sameNet >>

\* The write raises (disk full): the file keeps what reached it, a proper
\* prefix of the JSON text.
SaveWriteRaises ==
    /\ Running("save_write")
    /\ Abort("save_cache")
    /\ UNCHANGED << file, net, run, pc, i, cache, r, image_url, notice, hist >>

\* time.sleep(DELAY_SECONDS), and the loop goes to the next identifier.
Sleep ==
    /\ Running("sleep")
    /\ delays' = delays + 1
    /\ i' = i + 1
    /\ pc' = "loop"
    /\ UNCHANGED << file, net, run, status, cache, r, image_url, notice, abortedBy,
                    fileAtStart, requests, visited, fetched, failed, prevFailed, saves, snap,
                    cutShort, prevWhole, sameNet >>

\* The loop is over: print("Done. Images saved to", OUTPUT_FILE); main returns.
Finish ==
    /\ Running("loop")
    /\ i > Len(TOPIC_IDS)
    /\ status' = "done"
    /\ notice' = OUTPUT_FILE
    /\ UNCHANGED << file, net, run, pc, i, cache, r, image_url, abortedBy, hist >>

\* The process is terminated from outside, wherever it is.
Kill ==
    /\ status = "running"
    /\ status' = "killed"
    /\ cutShort' = TRUE
    /\ UNCHANGED << file, net, run, pc, i, cache, r, image_url, notice, abortedBy,
                    fileAtStart, requests, visited, fetched, failed, prevFailed, delays, saves,
                    snap, prevWhole, sameNet >>

Next ==
    \/ StartRun
    \/ NetChange
    \/ LoadCache
    \/ LoadCacheRaises
    \/ LoadCacheDenied
    \/ VisitCached
    \/ VisitScrape
    \/ GetReturns
    \/ GetRaises
    \/ ScrapeReturns
    \/ Resolved
    \/ Unresolved
    \/ SaveOpen
    \/ SaveOpenRaises
    \/ SaveWrite
    \/ SaveWriteRaises
    \/ Sleep
    \/ Finish
    \/ Kill

Spec == Init /\ [][Next]_vars

(* ---------------------- scrape_image on its own ----------------------- *)

\* scrape_image holds a response for the first identifier: any page of up to
\* MaxElems elements with status 200, or a 404.
InitExtract ==
    /\ r \in AllResponses
    /\ file = Absent
    /\ net = [id \in Ids |-> IF id = TOPIC_IDS[1] THEN r ELSE Unknown]
    /\ run = 1
    /\ status = "running"
    /\ pc = "scrape"
    /\ i = 1
    /\ cache = EmptyDict
    /\ image_url = None
    /\ notice = ""
    /\ abortedBy = ""
    /\ fileAtStart = Absent
    /\ visited = << TOPIC_IDS[1] >>
    /\ fetched = {TOPIC_IDS[1]}
    /\ requests = << TOPIC_IDS[1] >>
    /\ failed = {}
    /\ prevFailed = {}
    /\ delays = 0
    /\ saves = 0
    /\ snap = [cache |-> EmptyDict, file |-> Absent]
    /\ cutShort = FALSE
    /\ prevWhole = FALSE
    /\ sameNet = FALSE

NextExtract == ScrapeReturns

SpecExtract == InitExtract /\ [][NextExtract]_vars

(* ------------------------------- claims ------------------------------- *)

\* The elements of a page that a rule of the extraction looks for.
IsThumbnail(e) == e.name = "img" /\ e.alt = "thumbnail"

IsOgImage(e) == e.name = "meta" /\ e.property = "og:image"

\* The positions in a page of the elements each rule looks for, and the first
\* of a set of positions.
Thumbnails(doc) == {j \in 1..Len(doc) : IsThumbnail(doc[j])}

OgImages(doc) == {j \in 1..Len(doc) : IsOgImage(doc[j])}

First(S) == CHOOSE j \in S : \A k \in S : j <= k

\* C5: for a page fetched with status 200, scrape_image returns the src of the
\* first img with alt="thumbnail" when that src is non-empty, even when an
\* og:image meta with content is present; otherwise the content of the first
\* meta with property="og:image" when it is non-empty; otherwise None.
C5_OrderedFallback ==
    (Running("got") /\ r.kind = "response" /\ r.status = 200) =>
        LET doc == r.text
            thumbs == Thumbnails(doc)
            ogs == OgImages(doc)
            rule1 == thumbs # {} /\ doc[First(thumbs)].src \notin {None, ""}
            rule2 == ogs # {} /\ doc[First(ogs)].content \notin {None, ""}
        IN  image_url = IF rule1 THEN doc[First(thumbs)].src
                        ELSE IF rule2 THEN doc[First(ogs)].content
                        ELSE None

\* A page with a thumbnail (src "A") and an og:image (content "B") was scraped
\* and gave "A".
C5_Witness ==
    /\ Running("got")
    /\ r = Response(200, PageBoth)
    /\ image_url = "A"

(* -------------------------- claims on main() --------------------------- *)

Ended == status \in {"done", "aborted", "killed"}

InSave == pc \in {"save_open", "save_write"}

\* The entries the process has loaded or has finished saving: its dict,
\* without the entry whose save_cache call has not returned.
Committed ==
    [k \in (DOMAIN cache) \ (IF InSave THEN {key} ELSE {}) |-> cache[k]]

\* The file holds the entry k: v.
Holds(f, k, v) == f.kind = "json" /\ k \in DOMAIN f.data /\ f.data[k] = v

Range(seq) == {seq[j] : j \in 1..Len(seq)}

\* C1: the cache is append-only across process lifetimes: when a process has
\* ended, every entry it had loaded or saved is in the file with its value, so
\* that every later run loads it, skips its identifier and leaves its value.
C1_AppendOnly ==
    Ended => \A k \in DOMAIN Committed : Holds(file, k, Committed[k])

\* C2: a process terminated after it resolved (and saved) a topic leaves a
\* file that holds exactly the entries loaded at its start and those resolved
\* so far.
C2_PartialProgress ==
    (status = "killed" /\ saves >= 1) =>
        (file.kind = "json" /\ file.data = Committed)

\* C3: a timeout or connection error of a fetch does not end the run: no run
\* is ended by an exception out of scrape_image.
C3_FetchErrorCaught ==
    ~(status = "aborted" /\ abortedBy = "scrape_image")

\* C8: a run that ends (other than on a cache read or write failure, which
\* the design lets through) has visited every configured identifier once, in
\* the configured order, and has printed the completion notice.
C8_VisitsAll ==
    (status \in {"done", "aborted"} /\ abortedBy \notin {"load_cache", "save_cache"}) =>
        (visited = TOPIC_IDS /\ notice = OUTPUT_FILE)

\* C9: after a save_cache call that failed, the file still holds every entry
\* it held before that call (snap.file: the visit writes nothing before it).
C9_FailedSaveKeepsFile ==
    (status = "aborted" /\ abortedBy = "save_cache") =>
        \A k \in DOMAIN snap.file.data : Holds(file, k, snap.file.data[k])

\* C4: of two runs in succession, with the site answering the same (and the
\* first run neither killed nor refused the file by open()), the second leaves
\* the file as the first left it, and fetches no identifier whose key that
\* file holds (so none the first run resolved).
C4_Idempotent ==
    (run >= 2 /\ sameNet /\ prevWhole) =>
        /\ file = fileAtStart
        /\ \A id \in fetched : str(id) \notin DOMAIN fileAtStart.data

\* The second run is over: it skipped an identifier the first run had fetched
\* and resolved, and fetched another one again.
C4_Witness ==
    /\ run = 2 /\ status = "done" /\ sameNet /\ prevWhole
    /\ \E id \in Ids : /\ net[id] # Unknown
                       /\ id \notin fetched
                       /\ str(id) \in DOMAIN file.data
    /\ fetched # {}

\* The response of the current visit is a failure of the fetch or of the
\* extraction: a status other than 200, or a page with neither element.
FailedResponse ==
    /\ r.kind = "response"
    /\ \/ r.status # 200
       \/ Thumbnails(r.text) = {} /\ OgImages(r.text) = {}

\* C6: a visit that got a non-200 status, or a page with neither element, has
\* changed neither the dict nor the file when it reaches the sleep; the keys of
\* the identifiers that failed are in neither for the rest of the run; and the
\* next run, when it visits an identifier that failed, fetches it.
C6_FailedVisit ==
    /\ (pc = "sleep" /\ FailedResponse) => (cache = snap.cache /\ file = snap.file)
    /\ \A id \in failed : str(id) \notin (DOMAIN cache) \cup (DOMAIN file.data)
    /\ \A id \in prevFailed : id \in Range(visited) => id \in fetched

\* The second run got a 404 for an identifier that had failed in the first.
C6_Witness ==
    /\ run = 2 /\ Running("sleep")
    /\ r.status = 404
    /\ TOPIC_IDS[i] \in prevFailed
    /\ TOPIC_IDS[i] \in failed

\* C7: when the loop is about to examine an identifier (or to finish), the run
\* has taken one delay for each identifier it fetched and none for the
\* skipped ones; inside a visit, the delay of that visit is still to come.
C7_Pacing ==
    /\ pc \in {"load", "loop"} => delays = Cardinality(fetched)
    /\ pc \notin {"load", "loop"} => delays + 1 = Cardinality(fetched)
    /\ Cardinality(fetched) <= Len(visited)

\* A run is over that skipped one identifier and fetched another.
C7_Witness ==
    /\ status = "done"
    /\ Len(visited) = Len(TOPIC_IDS)
    /\ delays = 1
    /\ Cardinality(fetched) = 1

\* C10: with no cache file, load_cache gives an empty dict, no exception ends
\* the run there and no identifier is skipped; with a file that json.load
\* rejects, or that cannot be read, the run ends in load_cache, having
\* fetched nothing and left the file as it was.
C10_LoadOutcomes ==
    /\ (fileAtStart.kind = "absent" /\ status # "idle") =>
          /\ abortedBy # "load_cache"
          /\ (pc = "loop" /\ i = 1) => cache = EmptyDict
          /\ Range(visited) = fetched
    /\ (fileAtStart.kind = "corrupt" /\ status # "idle") =>
          (pc = "load" /\ status # "done")
    /\ (status = "aborted" /\ abortedBy = "load_cache") =>
          (fetched = {} /\ visited = << >> /\ file = fileAtStart
           /\ fileAtStart.kind # "absent")

\* A run found a file that is not JSON and ended in load_cache.
C10_Witness ==
    /\ status = "aborted" /\ abortedBy = "load_cache"
    /\ fileAtStart.kind = "corrupt"
    /\ ~cutShort

\* The configured identifiers as they are written in decimal, in the
\* configured order.
ConfiguredKeys ==
    << "3365", "3359", "1721", "3132", "2368", "2178", "1546", "3257", "3975", "3256",
       "111", "2668", "2670", "3360", "1856", "3367", "279", "3369", "3861", "3361" >>

\* The positions of the identifiers whose visit is over or under way.
Seen == 1..Len(visited)

\* C11: the key of an integer identifier is its decimal string: that is the
\* key under which a run inserts its entry, and an identifier is skipped
\* without a fetch exactly when the loaded file holds that string as a key
\* (whether an earlier run or anything else wrote it).
C11_KeyRoundTrip ==
    /\ InSave => (key = ConfiguredKeys[i] /\ ConfiguredKeys[i] \in DOMAIN cache)
    /\ (DOMAIN cache) \ (DOMAIN fileAtStart.data)
          \subseteq {ConfiguredKeys[j] : j \in Seen}
    /\ \A j \in Seen :
          (ConfiguredKeys[j] \in DOMAIN fileAtStart.data) <=> (visited[j] \notin fetched)

\* The second run skipped 3365, which the first run had fetched and saved
\* under "3365".
C11_Witness ==
    /\ run = 2 /\ status = "done"
    /\ net[3365].kind = "response"
    /\ "3365" \in DOMAIN fileAtStart.data
    /\ 3365 \in Range(visited) \ fetched

\* C12: only the first element of each kind counts. When the first img with
\* alt="thumbnail" has no src or an empty one, later thumbnails are ignored
\* and the first og:image meta alone decides: its content when non-empty,
\* else None, whatever a later og:image meta holds.
C12_FirstMatchOnly ==
    (Running("got") /\ r.kind = "response" /\ r.status = 200) =>
        LET doc == r.text
            thumbs == Thumbnails(doc)
            ogs == OgImages(doc)
        IN  (thumbs # {} /\ doc[First(thumbs)].src \in {None, ""}) =>
               /\ ogs = {} => image_url = None
               /\ ogs # {} =>
                    image_url = IF doc[First(ogs)].content \in {None, ""} THEN None
                                ELSE doc[First(ogs)].content

\* The first thumbnail had an empty src, a later one had "A", and the
\* og:image's "B" was returned.
C12_Witness ==
    /\ Running("got")
    /\ r = Response(200, << Img("thumbnail", ""), Img("thumbnail", "A"),
                            Meta("og:image", "B") >>)
    /\ image_url = "B"

\* The keys a dict or a file holds that the file did not hold when the run
\* started: the entries this run inserted.
Inserted(d) == (DOMAIN d) \ (DOMAIN fileAtStart.data)

\* C13: every entry a run inserts into its dict, and so every entry it adds
\* to the file, has a non-empty string as value: never None, never "".
C13_NonEmptyValues ==
    /\ \A k \in Inserted(cache) : cache[k] \notin {None, ""}
    /\ \A k \in Inserted(file.data) : file.data[k] \notin {None, ""}
    /\ InSave => image_url \notin {None, ""}

\* A page whose thumbnail has an empty src and whose og:image has "B" was
\* scraped, and "B" is what the file got.
C13_Witness ==
    /\ Running("sleep")
    /\ r = Response(200, PageOgOnly)
    /\ key \in Inserted(file.data)
    /\ file.data[key] = "B"

\* The identifiers this run has resolved: fetched, not failed, and past the
\* test of the result.
ResolvedIds ==
    {visited[j] : j \in {n \in Seen :
        /\ visited[n] \in fetched \ failed
        /\ n < i \/ pc \in {"save_open", "save_write", "sleep"}}}

\* C14: the dict handed to save_cache is the dict loaded at start plus the
\* entries of the identifiers resolved so far in this run, and that is what a
\* completed save leaves in the file: loaded entries, those of unconfigured
\* keys included, are there unchanged. save_cache has been called once for
\* each identifier resolved.
C14_SavesKeepEntries ==
    (status # "idle" /\ pc # "load") =>
        /\ \A k \in DOMAIN fileAtStart.data :
              k \in DOMAIN cache /\ cache[k] = fileAtStart.data[k]
        /\ Inserted(cache) = {ConfiguredKeys[j] : j \in {n \in Seen : visited[n] \in ResolvedIds}}
        /\ saves + (IF InSave THEN 1 ELSE 0) = Cardinality(ResolvedIds)
        /\ (saves >= 1 /\ ~InSave) => file = Json(cache)

\* A run that loaded {"3365": "Z", "999": null} has resolved and saved 3359:
\* the file holds all three entries, the loaded ones as they were.
C14_Witness ==
    /\ Running("sleep")
    /\ saves = 1
    /\ fileAtStart = Json(SetItem(SetItem(EmptyDict, "3365", "Z"), "999", None))
    /\ file.kind = "json"
    /\ DOMAIN file.data = {"3365", "3359", "999"}
    /\ file.data["999"] = None /\ file.data["3365"] = "Z"

Occurrences(q, x) == Cardinality({n \in 1..Len(q) : q[n] = x})

\* C15: within one run requests.get is issued at most once per identifier, and
\* only for an identifier whose key was absent from the cache when it was
\* visited; an identifier whose visit failed is not requested again in that run.
C15_OneFetchPerId ==
    /\ \A id \in Ids : Occurrences(requests, id) <= 1
    /\ Range(requests) = fetched
    /\ \A id \in failed : Occurrences(requests, id) = 1
    /\ \A n \in 1..Len(requests) :
          /\ requests[n] \in Range(visited)
          /\ str(requests[n]) \notin DOMAIN fileAtStart.data
    /\ (status = "running" /\ pc \in {"get", "scrape", "got"}) =>
          (requests[Len(requests)] = TOPIC_IDS[i] /\ key \notin DOMAIN snap.cache)

C15_Witness ==
    /\ run = 1 /\ status = "done"
    /\ fileAtStart = Json(SetItem(EmptyDict, "3365", ""))
    /\ visited = << 3365, 3359 >>
    /\ requests = << 3359 >>
    /\ failed = {3359}

\* C16: a key that is present in the loaded cache is a hit whatever its value:
\* its identifier is skipped, never requested and never counted as failed, and
\* its value, an empty string or null included, stays as loaded in the cache
\* and in every file a save of the run completes.
C16_HitByPresence ==
    \A id \in Ids :
        (str(id) \in DOMAIN fileAtStart.data /\ status # "idle" /\ pc # "load") =>
            /\ id \notin fetched \cup failed
            /\ Occurrences(requests, id) = 0
            /\ InCache(str(id), cache)
            /\ cache[str(id)] = fileAtStart.data[str(id)]
            /\ file.kind = "json" =>
                  /\ str(id) \in DOMAIN file.data
                  /\ file.data[str(id)] = fileAtStart.data[str(id)]

C16_Witness ==
    /\ run = 1 /\ status = "done" /\ saves = 1
    /\ fileAtStart.kind = "json"
    /\ DOMAIN fileAtStart.data = {"3365"}
    /\ fileAtStart.data["3365"] \in {"", None}
    /\ visited = << 3365, 3359 >>
    /\ requests = << 3359 >>
    /\ file.kind = "json"
    /\ DOMAIN file.data = {"3365", "3359"}
    /\ file.data["3365"] = fileAtStart.data["3365"]

====
